---- MODULE Spec2Model ----
(***************************************************************************)
(* graphmorph: the export -> validate -> parse pipeline (langgraph state   *)
(* graphs over AgentState) and the schema normalisation functions of       *)
(* tools/parser_tools.py.                                                  *)
(*                                                                         *)
(* Text is modelled as a sequence of words; a turn "contains ERROR" when   *)
(* one of its words is "ERROR", and a result is "ERROR-prefixed" when its  *)
(* first word is "ERROR".                                                  *)
(***************************************************************************)
EXTENDS Integers, Sequences, FiniteSets, TLC

VARIABLES
    state,        \* the AgentState threaded through the graph
    node,         \* position in the outer pipeline graph
    inner,        \* position inside the running sub-graph (agent / tools)
    steps,        \* super-steps taken by the running sub-graph
    path,         \* history: the <<graph, node>> pairs executed so far, in order
    dispatched,   \* history: the actions dispatched with their results, in order
    seen,         \* history: the transcript VALIDATE read (<<>>: not yet)
    unwrap,       \* one call of _unwrap_graphql_type: its input, locals and result
    parse,        \* one call of a parse action: its document and result
    openapi,      \* one call of _parse_openapi_type or _parse_openapi_schema
    probe         \* one call of a discovery action: the responses it gets, its locals and result

pipelineVars == <<state, node, inner, steps, path, dispatched, seen>>

fnVars == <<unwrap, parse, openapi, probe>>

vars == <<pipelineVars, fnVars>>

(***************************************************************************)
(* Bounds of the model.                                                    *)
(***************************************************************************)
\* langgraph stops a graph after this many super-steps (GraphRecursionError);
\* no source file sets it, the library's default is far larger.
RecursionLimit == 5

\* longest ofType chain of a type descriptor handed to _unwrap_graphql_type
MaxWrap == 3

\* most type or schema definitions in a document handed to a parse action
MaxDefs == 2

\* most conventional paths of a scan that answer differently from the rest
MaxDeviating == 2

(***************************************************************************)
(* Tool catalogues.                                                        *)
(***************************************************************************)
DISCOVERY_TOOLS == <<"check_graphql_endpoint", "check_openapi_endpoint">>

SCHEMA_TOOLS == <<"fetch_graphql_schema", "fetch_openapi_spec">>

API_TOOLS == DISCOVERY_TOOLS \o SCHEMA_TOOLS

PARSER_TOOLS == <<"parse_graphql_schema", "parse_openapi_spec">>

\* graphmorph.tools.ALL_TOOLS, the list schema_export.py and the export agent import
ALL_TOOLS == API_TOOLS \o PARSER_TOOLS

Range(s) == {s[i] : i \in 1..Len(s)}

(***************************************************************************)
(* Text helpers.                                                           *)
(***************************************************************************)
\* Python's  "ERROR" in str(content)
Contains(text, word) == \E i \in 1..Len(text) : text[i] = word

(***************************************************************************)
(* AgentState and its reducers.                                            *)
(***************************************************************************)
\* the keys declared Annotated[..., add]
Accumulating == {"messages", "entities", "errors"}

create_initial_state ==
    [messages   |-> <<>>,
     raw_schema |-> "None",
     entities   |-> <<>>,
     errors     |-> <<>>,
     status     |-> "initialized"]

\* ApplyUpdate with the reducers forgotten: every returned key overwrites
ApplyUpdate_overwrite(s, upd) ==
    [k \in DOMAIN s |-> IF k \in DOMAIN upd THEN upd[k] ELSE s[k]]

\* how langgraph merges a node's returned dict into the state: a key with the
\* `add` reducer is concatenated, any other key is overwritten, a key the
\* node did not return is kept.
ApplyUpdate(s, upd) ==
    [k \in DOMAIN s |->
        IF k \in DOMAIN upd
        THEN IF k \in Accumulating THEN s[k] \o upd[k] ELSE upd[k]
        ELSE s[k]]

\* the empty dict a node may return
NoUpdate == [k \in {} |-> <<>>]

(***************************************************************************)
(* Messages.                                                               *)
(***************************************************************************)
HumanMessage(text) ==
    [type |-> "human", content |-> text, tool_calls |-> <<>>, name |-> "none"]

AIMessage(text, calls) ==
    [type |-> "ai", content |-> text, tool_calls |-> calls, name |-> "none"]

ToolMessage(text, tool) ==
    [type |-> "tool", content |-> text, tool_calls |-> <<>>, name |-> tool]

\* the request export_api_schema puts in the state before invoking the graph
InitialRequest == HumanMessage(<<"analyze", "endpoint">>)

(***************************************************************************)
(* The decision-maker (the LLM bound to a tool list): free input.  It      *)
(* answers with a final text, or with one requested action.                *)
(***************************************************************************)
FinalTexts == {<<"done">>, <<"gave", "up", "ERROR">>}

Responses(tools) ==
    {AIMessage(t, <<>>) : t \in FinalTexts}
        \cup {AIMessage(<<>>, <<a>>) : a \in Range(tools)}

(***************************************************************************)
(* The result strings each action can return (one per return statement     *)
(* family of the tool's source).                                           *)
(***************************************************************************)
check_graphql_endpoint_returns ==
    {<<"YES", "types">>, <<"MAYBE", "message">>, <<"NO", "status">>,
     <<"ERROR", "timeout">>}

check_openapi_endpoint_returns ==
    {<<"YES", "spec">>, <<"NO", "spec">>, <<"ERROR", "check">>}

fetch_graphql_schema_returns ==
    {<<"SUCCESS", "summary">>, <<"SUCCESS", "summary", "ERROR">>,
     <<"ERROR", "status">>}

fetch_openapi_spec_returns ==
    {<<"SUCCESS", "summary">>, <<"ERROR", "status">>}

(***************************************************************************)
(* Nodes of the inner loop.                                                *)
(***************************************************************************)
\* agent_node: the state update for the decision-maker's response
agent_node(response) == [messages |-> <<response>>]

\* tools_condition looking for a tool-result turn instead of a tool call
tools_condition_wrong_turn(s) ==
    LET last == s.messages[Len(s.messages)]
    IN  IF last.type = "tool" THEN "tools" ELSE "END"

\* tools_condition: "tools" when the last turn requests an action, else END
tools_condition(s) ==
    LET last == s.messages[Len(s.messages)]
    IN  IF last.type = "ai" /\ Len(last.tool_calls) > 0 THEN "tools" ELSE "END"

\* ToolNode: runs the action the last turn requests and returns its result
\* as one tool-result turn
tool_node(tool, result) == [messages |-> <<ToolMessage(result, tool)>>]

RequestedTool(s) == s.messages[Len(s.messages)].tool_calls[1]

(***************************************************************************)
(* Nodes of the pipeline.                                                  *)
(***************************************************************************)
\* check_export_success reading only the latest turn
check_export_success_last_only(s) ==
    IF Contains(s.messages[Len(s.messages)].content, "ERROR")
    THEN [status |-> "failed"]
    ELSE [status |-> "success"]

check_export_success(s) ==
    IF \E i \in 1..Len(s.messages) : Contains(s.messages[i].content, "ERROR")
    THEN [status |-> "failed"]
    ELSE [status |-> "success"]

prepare_for_parsing(s) ==
    IF s.raw_schema # "None"
    THEN [messages |-> <<HumanMessage(<<"Now", "parse", s.raw_schema>>)>>]
    ELSE NoUpdate

\* the router sending every run on to the parse phase, failed or not
route_after_validation_always_parse(s) == "prepare_parse"

\* route_after_validation wired straight to the parse sub-graph
route_after_validation_skip_prepare(s) ==
    IF s.status = "failed" THEN "END" ELSE "parse"

route_after_validation(s) ==
    IF s.status = "failed" THEN "END" ELSE "prepare_parse"

(***************************************************************************)
(* Strings of the normalisation functions: a string is a sequence of       *)
(* pieces, "[" and "]" being pieces of their own; a GraphQL or schema name *)
(* is one piece and holds no bracket.                                      *)
(***************************************************************************)
\* "".join(parts)
RECURSIVE Join(_)
Join(parts) ==
    IF parts = <<>> THEN <<>> ELSE Head(parts) \o Join(Tail(parts))

\* text.count(piece)
Count(text, piece) == Cardinality({i \in 1..Len(text) : text[i] = piece})

\* piece * n
Repeat(piece, n) == [i \in 1..n |-> piece]

(***************************************************************************)
(* _unwrap_graphql_type.  A type descriptor is its chain of dicts, outer   *)
(* first: levels[i] is a non-empty dict with its kind and name (None when  *)
(* the key is absent or null; <<>> for the name), levels[i + 1] is its     *)
(* ofType, and `tail` says how the last dict's ofType ends: key missing    *)
(* or null.  No level at all is the descriptor {}.                         *)
(***************************************************************************)
UnwrapKinds == {"NON_NULL", "LIST", "SCALAR", "None"}

UnwrapNames == {<<>>, <<"String">>, <<"Id">>}

UnwrapLevels == [kind : UnwrapKinds, name : UnwrapNames]

TypeInfos ==
    [levels : UNION {[1..k -> UnwrapLevels] : k \in 0..MaxWrap},
     tail   : {"missing", "null"}]

\* current.get("ofType", {}): the index of the next dict, or 0 for a falsy
\* value ({} for a missing key, None for a null one)
OfType(type_info, i) == IF i < Len(type_info.levels) THEN i + 1 ELSE 0

\* lines 13-15: the locals at loop entry
UnwrapEntry(type_info) ==
    [current     |-> IF Len(type_info.levels) > 0 THEN 1 ELSE 0,
     is_required |-> FALSE,
     type_parts  |-> <<>>,
     broke       |-> FALSE]

\* the loop body with NON_NULL honoured only in front of every LIST
UnwrapStep_outer_required(type_info, st) ==
    LET level == type_info.levels[st.current]
        next  == OfType(type_info, st.current)
    IN  IF level.kind = "NON_NULL"
        THEN [st EXCEPT !.is_required = (st.type_parts = <<>>), !.current = next]
        ELSE IF level.kind = "LIST"
        THEN [st EXCEPT !.type_parts = Append(@, <<"[">>), !.current = next]
        ELSE IF level.name # <<>>
        THEN [st EXCEPT !.type_parts = Append(@, level.name), !.broke = TRUE]
        ELSE IF next = 0
        THEN [st EXCEPT !.current = next,
                        !.type_parts = Append(@, <<"Unknown">>),
                        !.broke = TRUE]
        ELSE [st EXCEPT !.current = next]

\* lines 18-34: one iteration of the while loop
UnwrapStep(type_info, st) ==
    LET level == type_info.levels[st.current]
        next  == OfType(type_info, st.current)
    IN  IF level.kind = "NON_NULL"
        THEN [st EXCEPT !.is_required = TRUE, !.current = next]
        ELSE IF level.kind = "LIST"
        THEN [st EXCEPT !.type_parts = Append(@, <<"[">>), !.current = next]
        ELSE IF level.name # <<>>
        THEN [st EXCEPT !.type_parts = Append(@, level.name), !.broke = TRUE]
        ELSE IF next = 0
        THEN [st EXCEPT !.current = next,
                        !.type_parts = Append(@, <<"Unknown">>),
                        !.broke = TRUE]
        ELSE [st EXCEPT !.current = next]

\* line 17: the loop goes on while current is truthy and no break was taken
UnwrapLooping(st) == st.current # 0 /\ ~st.broke

\* lines 36-39
UnwrapFinish(st) ==
    LET type_name == Join(st.type_parts)
    IN  [type_name   |-> type_name \o Repeat("]", Count(type_name, "[")),
         is_required |-> st.is_required]

RECURSIVE UnwrapLoop(_, _)
UnwrapLoop(type_info, st) ==
    IF UnwrapLooping(st) THEN UnwrapLoop(type_info, UnwrapStep(type_info, st)) ELSE st

_unwrap_graphql_type(type_info) ==
    UnwrapFinish(UnwrapLoop(type_info, UnwrapEntry(type_info)))

NoTypeInfo == [levels |-> <<>>, tail |-> "missing"]

NoUnwrapResult == [type_name |-> <<>>, is_required |-> FALSE]

\* no call in progress
UnwrapIdle ==
    [pc |-> "idle", type_info |-> NoTypeInfo, st |-> UnwrapEntry(NoTypeInfo),
     result |-> NoUnwrapResult]

(***************************************************************************)
(* Python values the schemas carry: None, a string, an integer.            *)
(***************************************************************************)
PyNone == [py |-> "None", s |-> <<>>, n |-> 0]

PyStr(text) == [py |-> "str", s |-> text, n |-> 0]

PyInt(k) == [py |-> "int", s |-> <<>>, n |-> k]

\* str(value)
Str(value) ==
    IF value.py = "str" THEN value.s
    ELSE IF value.py = "int" THEN <<ToString(value.n)>>
    ELSE <<"None">>

\* d.get(key, default) on a dict modelled as a record with its key set
Get(d, key, field, default) == IF key \in d.keys THEN d[field] ELSE default

SchemaField(name, field_type, is_required, description) ==
    [name |-> name, field_type |-> field_type, is_required |-> is_required,
     description |-> description]

SchemaEntity(name, kind, description, fields, source_api) ==
    [name |-> name, kind |-> kind, description |-> description,
     fields |-> fields, source_api |-> source_api]

(***************************************************************************)
(* GraphQL entity builder.                                                 *)
(***************************************************************************)
\* name.startswith("__"): an introspection name is the piece "__" and a rest
StartsWithDunder(name) == Len(name) > 0 /\ name[1] = "__"

\* lines 59-68: the fields of a type, each with its unwrapped type
GraphqlFields(raw_fields) ==
    [i \in 1..Len(raw_fields) |->
        LET unwrapped == _unwrap_graphql_type(raw_fields[i].type)
        IN  SchemaField(raw_fields[i].name, unwrapped.type_name,
                        unwrapped.is_required, raw_fields[i].description)]

\* lines 70-77: one ENUM_VALUE field per enum value
GraphqlEnumFields(enum_values) ==
    [i \in 1..Len(enum_values) |->
        SchemaField(enum_values[i].name, <<"ENUM_VALUE">>, TRUE,
                    enum_values[i].description)]

\* lines 43-50: the types the builder skips (it returns None for them)
GraphqlSkipped(type_def) ==
    StartsWithDunder(type_def.name) \/ type_def.kind = "SCALAR"

\* lines 52-85
_parse_graphql_type(type_def, source_api) ==
    LET raw_fields == IF type_def.fields # <<>> THEN type_def.fields
                      ELSE type_def.inputFields
    IN  SchemaEntity(type_def.name, <<type_def.kind>>, type_def.description,
                     GraphqlFields(raw_fields) \o GraphqlEnumFields(type_def.enumValues),
                     source_api)

(***************************************************************************)
(* OpenAPI type resolution and entity builder.  A $ref is its text, the    *)
(* "/" separators being pieces of their own.                               *)
(***************************************************************************)
\* ref.split("/")[-1]
_resolve_openapi_ref(ref) ==
    LET slashes == {i \in 1..Len(ref) : ref[i] = "/"}
        start   == IF slashes = {} THEN 1
                   ELSE 1 + CHOOSE i \in slashes : \A j \in slashes : j <= i
    IN  SubSeq(ref, start, Len(ref))

type_mapping(prop_type) ==
    CASE prop_type = "string"  -> "String"
      [] prop_type = "integer" -> "Int"
      [] prop_type = "number"  -> "Float"
      [] prop_type = "boolean" -> "Boolean"
      [] prop_type = "object"  -> "Object"
      [] OTHER                 -> prop_type

NoItems == [keys |-> {}, ref |-> <<>>, type |-> "object"]

_parse_openapi_type(prop_def) ==
    IF "$ref" \in prop_def.keys
    THEN _resolve_openapi_ref(prop_def.ref)
    ELSE LET prop_type == Get(prop_def, "type", "type", "object")
         IN  IF prop_type = "array"
             THEN LET items     == Get(prop_def, "items", "items", NoItems)
                      item_type == IF "$ref" \in items.keys
                                   THEN _resolve_openapi_ref(items.ref)
                                   ELSE <<Get(items, "type", "type", "object")>>
                  IN  <<"[">> \o item_type \o <<"]">>
             ELSE <<type_mapping(prop_type)>>

\* lines 206-214
OpenapiKind(schema_def) ==
    LET schema_type == Get(schema_def, "type", "type", "object")
    IN  IF "enum" \in schema_def.keys THEN "ENUM"
        ELSE IF schema_type = "object" \/ "properties" \in schema_def.keys THEN "OBJECT"
        ELSE IF "allOf" \in schema_def.keys THEN "COMPOSITE"
        ELSE "OBJECT"

\* lines 219-231
OpenapiPropertyFields(schema_def) ==
    LET required_fields == Range(Get(schema_def, "required", "required", <<>>))
        properties      == Get(schema_def, "properties", "properties", <<>>)
    IN  [i \in 1..Len(properties) |->
            SchemaField(properties[i].name,
                        _parse_openapi_type(properties[i].def),
                        properties[i].name \in required_fields,
                        Get(properties[i].def, "description", "description", PyNone))]

\* lines 234-241
OpenapiEnumFields(schema_def) ==
    IF "enum" \in schema_def.keys
    THEN [i \in 1..Len(schema_def.enum) |->
            SchemaField(Str(schema_def.enum[i]), <<"ENUM_VALUE">>, TRUE, PyNone)]
    ELSE <<>>

_parse_openapi_schema(name, schema_def, source_api) ==
    SchemaEntity(name, <<OpenapiKind(schema_def)>>,
                 Get(schema_def, "description", "description", PyNone),
                 OpenapiPropertyFields(schema_def) \o OpenapiEnumFields(schema_def),
                 source_api)

(***************************************************************************)
(* json.dumps of the entities and json.loads of that text.  The text is a  *)
(* sequence of pieces: the punctuation of JSON, null, true, false, and the *)
(* pieces of each string between two quote pieces (no string of the model  *)
(* holds a quote, so none needs escaping).  Whitespace is left out.        *)
(***************************************************************************)
RECURSIVE JoinWith(_, _)
JoinWith(texts, sep) ==
    IF texts = <<>> THEN <<>>
    ELSE IF Len(texts) = 1 THEN texts[1]
    ELSE texts[1] \o sep \o JoinWith(Tail(texts), sep)

DumpStr(text) == <<"\"">> \o text \o <<"\"">>

DumpOptional(value) == IF value.py = "None" THEN <<"null">> ELSE DumpStr(value.s)

DumpBool(b) == IF b THEN <<"true">> ELSE <<"false">>

DumpPair(key, dumped) == DumpStr(<<key>>) \o <<":">> \o dumped

DumpList(dumped) == <<"[">> \o JoinWith(dumped, <<",">>) \o <<"]">>

DumpObject(pairs) == <<"{">> \o JoinWith(pairs, <<",">>) \o <<"}">>

DumpField(f) ==
    DumpObject(<<DumpPair("name", DumpStr(f.name)),
                 DumpPair("field_type", DumpStr(f.field_type)),
                 DumpPair("is_required", DumpBool(f.is_required)),
                 DumpPair("description", DumpOptional(f.description))>>)

DumpEntity(e) ==
    DumpObject(<<DumpPair("name", DumpStr(e.name)),
                 DumpPair("kind", DumpStr(e.kind)),
                 DumpPair("description", DumpOptional(e.description)),
                 DumpPair("fields",
                          DumpList([i \in 1..Len(e.fields) |-> DumpField(e.fields[i])])),
                 DumpPair("source_api", DumpStr(e.source_api))>>)

\* json.dumps([dict(e) for e in entities], indent=2)
json_dumps(entities) ==
    DumpList([i \in 1..Len(entities) |-> DumpEntity(entities[i])])

\* the tokens of a JSON text: a string literal becomes one token.  A piece
\* starts a token when an even number of quotes precedes it; the text is cut
\* at such a piece near its middle and each half is scanned in turn.
RECURSIVE Lex(_)
Lex(text) ==
    LET n    == Len(text)
        cuts == {k \in 2..n :
                    Cardinality({q \in 1..(k - 1) : text[q] = "\""}) % 2 = 0}
        far(k) == IF 2 * k >= n THEN 2 * k - n ELSE n - 2 * k
    IN  IF n = 0 THEN <<>>
        ELSE IF cuts = {}
        THEN IF text[1] = "\""
             THEN <<[t |-> "str", s |-> SubSeq(text, 2, n - 1)]>>
             ELSE <<[t |-> text[1], s |-> <<>>]>>
        ELSE LET k == CHOOSE c \in cuts : \A d \in cuts : far(c) <= far(d)
             IN  Lex(SubSeq(text, 1, k - 1)) \o Lex(SubSeq(text, k, n))

\* the value token of `key` among the `n` key : value pairs that start at i
PairValue(toks, i, n, key) ==
    LET p == CHOOSE q \in 0..(n - 1) : toks[i + 4 * q].s = <<key>>
    IN  toks[i + 4 * p + 2]

LoadOptional(tok) == IF tok.t = "null" THEN PyNone ELSE PyStr(tok.s)

\* a field object opening at i: "{", four pairs, "}" (17 tokens)
LoadField(toks, i) ==
    SchemaField(PairValue(toks, i + 1, 4, "name").s,
                PairValue(toks, i + 1, 4, "field_type").s,
                PairValue(toks, i + 1, 4, "is_required").t = "true",
                LoadOptional(PairValue(toks, i + 1, 4, "description")))

\* the field objects from i to the closing "]"; next is the token after it
RECURSIVE LoadFields(_, _)
LoadFields(toks, i) ==
    IF toks[i].t = "]" THEN [val |-> <<>>, next |-> i + 1]
    ELSE LET rest == LoadFields(toks, IF toks[i + 17].t = "," THEN i + 18 ELSE i + 17)
         IN  [val |-> <<LoadField(toks, i)>> \o rest.val, next |-> rest.next]

\* the entity objects from i to the closing "]"
RECURSIVE LoadEntities(_, _)
LoadEntities(toks, i) ==
    IF toks[i].t = "]" THEN <<>>
    ELSE LET fields == LoadFields(toks, i + 16)
             entity == SchemaEntity(PairValue(toks, i + 1, 3, "name").s,
                                    PairValue(toks, i + 1, 3, "kind").s,
                                    LoadOptional(PairValue(toks, i + 1, 3, "description")),
                                    fields.val,
                                    toks[fields.next + 3].s)
             after  == fields.next + 5
         IN  <<entity>> \o LoadEntities(toks, IF toks[after].t = "," THEN after + 1 ELSE after)

\* json.loads of an entity array
json_loads(text) == LoadEntities(Lex(text), 2)

(***************************************************************************)
(* The parse actions.  The raw_schema_json argument is modelled by what    *)
(* json.loads makes of it: invalid JSON, or the parsed document.           *)
(***************************************************************************)
SourceApi == <<"petstore">>

Sentinel == "---ENTITIES_JSON---"

\* lines 107-114: the types list of an introspection result, whatever its envelope
GraphqlTypes(doc) ==
    IF doc.envelope = "data_without_schema" THEN <<>> ELSE doc.types

\* lines 119-123: the entities of the types the builder does not skip
RECURSIVE GraphqlEntities(_, _)
GraphqlEntities(types, source_api) ==
    IF types = <<>> THEN <<>>
    ELSE (IF GraphqlSkipped(Head(types)) THEN <<>>
          ELSE <<_parse_graphql_type(Head(types), source_api)>>)
             \o GraphqlEntities(Tail(types), source_api)

\* Line 129, `by_kind = dict[str, list[SchemaEntity]] = {}`, is a chained
\* assignment whose second target subscripts the type dict: it raises
\* TypeError on every call that gets this far, and line 150 turns that into
\* an ERROR result.  Lines 130-146 are never reached.
parse_graphql_schema(doc, source_api) ==
    IF ~doc.valid
    THEN <<"ERROR", "-", "Invalid", "JSON">>
    ELSE IF GraphqlTypes(doc) = <<>>
    THEN <<"ERROR", "-", "No", "types", "found">>
    ELSE <<"ERROR", "-", "Failed", "to", "parse", "GraphQL", "schema">>

\* lines 271-273: components.schemas, or definitions when that is empty
OpenapiSchemas(doc) ==
    IF doc.components # <<>> THEN doc.components ELSE doc.definitions

\* lines 279-282
OpenapiEntities(schemas, source_api) ==
    [i \in 1..Len(schemas) |->
        _parse_openapi_schema(schemas[i].name, schemas[i].def, source_api)]

\* sorted(by_kind.items()): the kinds an OpenAPI entity can have, sorted
SortedKinds == <<"COMPOSITE", "ENUM", "OBJECT">>

\* lines 297-304: the summary lines of one kind (none when no entity has it)
KindGroup(kind, entities) ==
    LET kind_entities == SelectSeq(entities, LAMBDA e : e.kind = <<kind>>)
        count         == Len(kind_entities)
        shown         == IF count > 5 THEN 5 ELSE count
    IN  IF count = 0 THEN <<>>
        ELSE <<<<kind, "(", ToString(count), ")", ":">>>>
               \o [i \in 1..shown |->
                     <<"-">> \o kind_entities[i].name
                        \o <<"-", ToString(Len(kind_entities[i].fields)), "fields">>]
               \o (IF count > 5
                   THEN <<<<"...", "and", ToString(count - 5), "more">>>>
                   ELSE <<>>)
               \o << <<>> >>

parse_openapi_spec(doc, source_api) ==
    IF ~doc.valid
    THEN <<"ERROR", "-", "Invalid", "JSON">>
    ELSE IF OpenapiSchemas(doc) = <<>>
    THEN <<"ERROR", "-", "No", "schemas", "found">>
    ELSE LET entities == OpenapiEntities(OpenapiSchemas(doc), source_api)
             summary_lines ==
                 << <<"SUCCESS", "-", "Parsed", ToString(Len(entities)),
                      "entities", "from", "OpenAPI", "spec">> \o source_api,
                    <<>> >>
                 \o KindGroup(SortedKinds[1], entities)
                 \o KindGroup(SortedKinds[2], entities)
                 \o KindGroup(SortedKinds[3], entities)
                 \o << <<Sentinel>>, json_dumps(entities) >>
         IN  JoinWith(summary_lines, <<"\n">>)

(***************************************************************************)
(* Documents handed to the parse actions.                                  *)
(***************************************************************************)
NonNullId ==
    [levels |-> <<[kind |-> "NON_NULL", name |-> <<>>],
                  [kind |-> "SCALAR", name |-> <<"Id">>]>>,
     tail   |-> "null"]

StringList ==
    [levels |-> <<[kind |-> "LIST", name |-> <<>>],
                  [kind |-> "SCALAR", name |-> <<"String">>]>>,
     tail   |-> "null"]

GraphqlTypeDefs ==
    <<[name |-> <<"User">>, kind |-> "OBJECT", description |-> PyStr(<<"A", "user">>),
       fields |-> <<[name |-> <<"id">>, type |-> NonNullId, description |-> PyNone],
                    [name |-> <<"tags">>, type |-> StringList,
                     description |-> PyStr(<<"labels">>)]>>,
       inputFields |-> <<>>, enumValues |-> <<>>],
      [name |-> <<"Color">>, kind |-> "ENUM", description |-> PyNone,
       fields |-> <<>>, inputFields |-> <<>>,
       enumValues |-> <<[name |-> <<"RED">>, description |-> PyNone],
                        [name |-> <<"GREEN">>, description |-> PyNone]>>],
      [name |-> <<"String">>, kind |-> "SCALAR", description |-> PyNone,
       fields |-> <<>>, inputFields |-> <<>>, enumValues |-> <<>>],
      [name |-> <<"__", "Type">>, kind |-> "OBJECT", description |-> PyNone,
       fields |-> <<>>, inputFields |-> <<>>, enumValues |-> <<>>]>>

PropInteger ==
    [keys |-> {"type"}, ref |-> <<>>, type |-> "integer", items |-> NoItems,
     description |-> PyNone]

PropString ==
    [keys |-> {"type", "description"}, ref |-> <<>>, type |-> "string",
     items |-> NoItems, description |-> PyStr(<<"label">>)]

PropTagList ==
    [keys |-> {"type", "items"}, ref |-> <<>>, type |-> "array",
     items |-> [keys |-> {"$ref"},
                ref |-> <<"#", "/", "components", "/", "schemas", "/", "Tag">>,
                type |-> "object"],
     description |-> PyNone]

OpenapiSchemaDefs ==
    <<[name |-> <<"Pet">>,
       def  |-> [keys |-> {"type", "properties", "required", "description"},
                 type |-> "object", enum |-> <<>>,
                 properties |-> <<[name |-> <<"id">>, def |-> PropInteger],
                                  [name |-> <<"tags">>, def |-> PropTagList]>>,
                 required |-> << <<"id">> >>,
                 description |-> PyStr(<<"A", "pet">>)]],
      [name |-> <<"Tag">>,
       def  |-> [keys |-> {"properties"}, type |-> "object", enum |-> <<>>,
                 properties |-> <<[name |-> <<"name">>, def |-> PropString]>>,
                 required |-> <<>>, description |-> PyNone]],
      [name |-> <<"Status">>,
       def  |-> [keys |-> {"type", "enum"}, type |-> "string",
                 enum |-> <<PyStr(<<"sold">>), PyInt(1)>>,
                 properties |-> <<>>, required |-> <<>>, description |-> PyNone]],
      [name |-> <<"Combo">>,
       def  |-> [keys |-> {"allOf"}, type |-> "object", enum |-> <<>>,
                 properties |-> <<>>, required |-> <<>>, description |-> PyNone]]>>

\* the lists of at most MaxDefs distinct definitions drawn from `defs`
Selections(defs) ==
    {[i \in 1..Len(pick) |-> defs[pick[i]]] :
        pick \in {q \in UNION {[1..k -> 1..Len(defs)] : k \in 0..MaxDefs} :
                     \A i, j \in 1..Len(q) : i # j => q[i] # q[j]}}

GraphqlDocs ==
    [valid    : BOOLEAN,
     envelope : {"data", "data_without_schema", "__schema", "bare"},
     types    : Selections(GraphqlTypeDefs)]

OpenapiDocs ==
    [valid       : BOOLEAN,
     components  : Selections(OpenapiSchemaDefs),
     definitions : Selections(OpenapiSchemaDefs)]

NoGraphqlDoc == [valid |-> FALSE, envelope |-> "bare", types |-> <<>>]

NoOpenapiDoc == [valid |-> FALSE, components |-> <<>>, definitions |-> <<>>]

\* no call in progress
ParseIdle ==
    [pc |-> "idle", tool |-> "none", graphql |-> NoGraphqlDoc,
     openapi |-> NoOpenapiDoc, result |-> <<>>]

\* the documents the pipeline's parse actions are called on
PipelineGraphqlDocs ==
    {NoGraphqlDoc,
     [valid |-> TRUE, envelope |-> "data", types |-> <<GraphqlTypeDefs[1]>>]}

PipelineOpenapiDocs ==
    {[valid |-> TRUE, components |-> <<>>, definitions |-> <<>>],
     [valid |-> TRUE, components |-> <<OpenapiSchemaDefs[3]>>, definitions |-> <<>>],
     [valid |-> TRUE, components |-> <<>>,
      definitions |-> <<OpenapiSchemaDefs[2], OpenapiSchemaDefs[4]>>]}

parse_graphql_schema_returns ==
    {parse_graphql_schema(doc, SourceApi) : doc \in PipelineGraphqlDocs}

parse_openapi_spec_returns ==
    {parse_openapi_spec(doc, SourceApi) : doc \in PipelineOpenapiDocs}

\* the result strings ToolNode can get from the action named `tool`
ToolReturns(tool) ==
    CASE tool = "check_graphql_endpoint" -> check_graphql_endpoint_returns
      [] tool = "check_openapi_endpoint" -> check_openapi_endpoint_returns
      [] tool = "fetch_graphql_schema"   -> fetch_graphql_schema_returns
      [] tool = "fetch_openapi_spec"     -> fetch_openapi_spec_returns
      [] tool = "parse_graphql_schema"   -> parse_graphql_schema_returns
      [] tool = "parse_openapi_spec"     -> parse_openapi_spec_returns

(***************************************************************************)
(* Property and schema definitions handed to _parse_openapi_type and       *)
(* _parse_openapi_schema on their own.                                     *)
(***************************************************************************)
OpenapiTypeNames ==
    {"string", "integer", "number", "boolean", "object", "array", "date"}

OpenapiRefs ==
    {<<"#", "/", "components", "/", "schemas", "/", "Pet">>,
     <<"#", "/", "definitions", "/", "Tag">>,
     <<"Pet">>}

\* the items of an array property: a dict with any of $ref and type
ItemDefs ==
    {[keys |-> keys,
      ref  |-> IF "$ref" \in keys THEN ref ELSE <<>>,
      type |-> IF "type" \in keys THEN type ELSE "object"] :
        keys \in SUBSET {"$ref", "type"}, ref \in OpenapiRefs,
        type \in OpenapiTypeNames}

\* a property definition: a dict with any of $ref, type and items
PropDefs ==
    {[keys  |-> keys,
      ref   |-> IF "$ref" \in keys THEN ref ELSE <<>>,
      type  |-> IF "type" \in keys THEN type ELSE "object",
      items |-> IF "items" \in keys THEN items ELSE NoItems,
      description |-> PyNone] :
        keys \in SUBSET {"$ref", "type", "items"}, ref \in OpenapiRefs,
        type \in OpenapiTypeNames, items \in ItemDefs}

\* a schema definition: a dict with any of type, enum, properties and allOf
SchemaDefs ==
    {[keys |-> keys,
      type |-> IF "type" \in keys THEN type ELSE "object",
      enum |-> IF "enum" \in keys THEN <<PyStr(<<"sold">>)>> ELSE <<>>,
      properties |-> IF "properties" \in keys THEN properties ELSE <<>>,
      required |-> <<>>, description |-> PyNone] :
        keys \in SUBSET {"type", "enum", "properties", "allOf"},
        type \in {"object", "string", "array"},
        properties \in {<<>>, <<[name |-> <<"id">>, def |-> PropInteger]>>}}

NoSchemaDef ==
    [keys |-> {}, type |-> "object", enum |-> <<>>, properties |-> <<>>,
     required |-> <<>>, description |-> PyNone]

NoPropDef ==
    [keys |-> {}, ref |-> <<>>, type |-> "object", items |-> NoItems,
     description |-> PyNone]

\* no call in progress
OpenapiIdle ==
    [pc |-> "idle", fn |-> "none", prop_def |-> NoPropDef,
     schema_def |-> NoSchemaDef, type_name |-> <<>>, entities |-> <<>>]

(***************************************************************************)
(* check_graphql_endpoint.  What the POST of the introspection query meets *)
(* is the outcome: a timeout, another transport failure, or a response     *)
(* with its status and body.  The body is not JSON, or a JSON object whose *)
(* "data" is absent, null, an object without __schema, a __schema without  *)
(* types or a __schema with a list of types, and whose "errors" is absent, *)
(* an empty list, or a list whose first error has a message or has none.   *)
(***************************************************************************)
TypeCounts == {0, 1, 15}

GraphqlOutcomes ==
    [net : {"timeout", "request_error"}, status : {0}, json : {"invalid"},
     data : {"absent"}, type_count : {0}, errors : {"absent"}]
    \cup [net : {"ok"}, status : {200, 404, 500}, json : {"invalid"},
          data : {"absent"}, type_count : {0}, errors : {"absent"}]
    \cup [net : {"ok"}, status : {200, 404, 500}, json : {"object"},
          data : {"absent", "null", "no_schema", "schema_untyped"},
          type_count : {0},
          errors : {"absent", "empty", "message", "no_message"}]
    \cup [net : {"ok"}, status : {200, 404, 500}, json : {"object"},
          data : {"schema"}, type_count : TypeCounts,
          errors : {"absent", "empty", "message", "no_message"}]

\* lines 38-46, the exceptions of json(), of the membership test on a null
\* data, of the missing types key and of errors[0] going to line 53
check_graphql_endpoint(outcome) ==
    IF outcome.net = "timeout"
    THEN <<"ERROR", "-", "Request", "timed", "out">>
    ELSE IF outcome.net = "request_error"
    THEN <<"ERROR", "-", "Could", "not", "connect">>
    ELSE IF outcome.status # 200
    THEN <<"NO", "-", "status", ToString(outcome.status)>>
    ELSE IF outcome.json = "invalid" \/ outcome.data = "null"
    THEN <<"ERROR", "-", "Unexpected", "error">>
    ELSE IF outcome.data \in {"schema", "schema_untyped"}
    THEN IF outcome.data = "schema_untyped"
         THEN <<"ERROR", "-", "Unexpected", "error">>
         ELSE <<"YES", "-", "Found", ToString(outcome.type_count), "types">>
    ELSE IF outcome.errors # "absent"
    THEN IF outcome.errors = "empty"
         THEN <<"ERROR", "-", "Unexpected", "error">>
         ELSE <<"MAYBE", "-", "errors", ":">>
                \o (IF outcome.errors = "message"
                    THEN <<"Introspection", "disabled">>
                    ELSE <<"Unknown", "error">>)
    ELSE <<"NO", "-", "status", ToString(outcome.status)>>

NoGraphqlOutcome ==
    [net |-> "timeout", status |-> 0, json |-> "invalid", data |-> "absent",
     type_count |-> 0, errors |-> "absent"]

(***************************************************************************)
(* check_openapi_endpoint.  A path is its text, the suffix being a piece   *)
(* of its own.  What the GET of a path meets is a transport failure or a   *)
(* response with its status and body: not JSON, or a JSON object with its  *)
(* top-level keys.                                                         *)
(***************************************************************************)
common_paths ==
    <<<<"/openapi", ".json">>, <<"/openapi", ".yaml">>,
      <<"/swagger", ".json">>, <<"/swagger", ".yaml">>,
      <<"/api-docs">>, <<"/v3/api-docs">>, <<"/v2/api-docs">>,
      <<"/docs/openapi", ".json">>, <<"/.well-known/openapi", ".json">>,
      <<"/api/openapi", ".json">>>>

\* path.endswith(".yaml")
EndsWithYaml(p) == p[Len(p)] = ".yaml"

PathResponses ==
    [net : {"failed"}, status : {0}, json : {"invalid"}, keys : {{}}]
    \cup [net : {"ok"}, status : {404}, json : {"invalid"}, keys : {{}}]
    \cup [net : {"ok"}, status : {200}, json : {"invalid"}, keys : {{}}]
    \cup [net : {"ok"}, status : {200}, json : {"object"},
          keys : {{}, {"openapi"}, {"swagger"}, {"paths"}}]

\* the scans: every path answers `base`, but for at most MaxDeviating paths
ScanResponses ==
    {[i \in 1..Len(common_paths) |-> IF i \in DOMAIN f THEN f[i] ELSE base] :
        base \in {r \in PathResponses : r.status # 200},
        f \in UNION {[T -> PathResponses] :
                        T \in {U \in SUBSET (1..Len(common_paths)) :
                                  Cardinality(U) <= MaxDeviating}}}

\* line 218: data.get("openapi") or data.get("swagger") or "unknown"
SpecVersion(keys) ==
    IF "openapi" \in keys THEN "3.0.0"
    ELSE IF "swagger" \in keys THEN "2.0"
    ELSE "unknown"

\* the loop body noting a YAML-suffixed path on any 200 response
ProbeStep_yaml_unchecked(found_specs, p, response) ==
    IF response.net = "failed" \/ response.status # 200
    THEN found_specs
    ELSE IF response.json = "object"
            /\ response.keys \cap {"openapi", "swagger", "paths"} # {}
    THEN Append(found_specs,
                [url |-> p, note |-> <<"version", ":", SpecVersion(response.keys)>>])
    ELSE IF EndsWithYaml(p)
    THEN Append(found_specs, [url |-> p, note |-> <<"YAML", "format">>])
    ELSE found_specs

\* lines 208-225: the body of the loop for one path; a failed request is
\* swallowed by line 224 and the scan goes on
ProbeStep(found_specs, p, response) ==
    IF response.net = "failed" \/ response.status # 200
    THEN found_specs
    ELSE IF response.json = "invalid"
    THEN IF EndsWithYaml(p)
         THEN Append(found_specs, [url |-> p, note |-> <<"YAML", "format">>])
         ELSE found_specs
    ELSE IF response.keys \cap {"openapi", "swagger", "paths"} # {}
    THEN Append(found_specs,
                [url |-> p, note |-> <<"version", ":", SpecVersion(response.keys)>>])
    ELSE found_specs

RECURSIVE FoundLines(_)
FoundLines(found_specs) ==
    IF found_specs = <<>> THEN <<>>
    ELSE <<"\n", "-">> \o Head(found_specs).url \o Head(found_specs).note
            \o FoundLines(Tail(found_specs))

\* lines 227-230
ProbeFinish(found_specs) ==
    IF found_specs # <<>>
    THEN <<"YES", "-", "Found", "OpenAPI", "spec", "at", ":">> \o FoundLines(found_specs)
    ELSE <<"NO", "-", "No", "OpenAPI", "specification", "found">>

\* line 233: the client itself could not be set up
ProbeClientError == <<"ERROR", "-", "Failed", "to", "check", "for", "OpenAPI">>

NoScan == [i \in 1..Len(common_paths) |->
              [net |-> "failed", status |-> 0, json |-> "invalid", keys |-> {}]]

\* no call in progress
ProbeIdle ==
    [pc |-> "idle", tool |-> "none", outcome |-> NoGraphqlOutcome,
     client_ok |-> TRUE, responses |-> NoScan, i |-> 1, found_specs |-> <<>>,
     result |-> <<>>]

(***************************************************************************)
(* The pipeline as a state machine.                                        *)
(***************************************************************************)
\* the state a caller hands to pipeline.invoke: create_initial_state plus the
\* request turn; raw_schema is the caller's to fill in or leave None.
Init ==
    /\ \E raw \in {"None", "caller_schema"} :
         state = [create_initial_state EXCEPT
                     !.messages = <<InitialRequest>>, !.raw_schema = raw]
    /\ node = "export"
    /\ inner = "agent"
    /\ steps = 0
    /\ path = <<>>
    /\ dispatched = <<>>
    /\ seen = <<>>
    /\ unwrap = UnwrapIdle
    /\ parse = ParseIdle
    /\ openapi = OpenapiIdle
    /\ probe = ProbeIdle

\* one DECIDE step of the sub-graph `phase`, whose agent is bound to `tools`;
\* `after` is the pipeline node that follows the sub-graph.
Decide(phase, tools, after) ==
    /\ node = phase
    /\ inner = "agent"
    /\ steps < RecursionLimit
    /\ \E response \in Responses(tools) :
         LET s2 == ApplyUpdate(state, agent_node(response))
         IN  /\ state' = s2
             /\ IF tools_condition(s2) = "tools"
                THEN node' = phase /\ inner' = "tools" /\ steps' = steps + 1
                ELSE node' = after /\ inner' = "agent" /\ steps' = 0
    /\ path' = Append(path, <<phase, "agent">>)
    /\ UNCHANGED <<dispatched, seen, fnVars>>

\* one ACT step of the sub-graph `phase`
Act(phase) ==
    /\ node = phase
    /\ inner = "tools"
    /\ steps < RecursionLimit
    /\ LET tool == RequestedTool(state)
       IN  \E result \in ToolReturns(tool) :
             /\ state' = ApplyUpdate(state, tool_node(tool, result))
             /\ dispatched' = Append(dispatched, [phase |-> phase, tool |-> tool, result |-> result])
    /\ inner' = "agent"
    /\ steps' = steps + 1
    /\ path' = Append(path, <<phase, "tools">>)
    /\ UNCHANGED <<node, seen, fnVars>>

ExportDecide == Decide("export", ALL_TOOLS, "validate")

ExportAct == Act("export")

ParseDecide == Decide("parse", PARSER_TOOLS, "END")

ParseAct == Act("parse")

\* the sub-graph has used its super-steps without reaching END: invoke raises
\* GraphRecursionError and no further update is merged.
RecursionAbort ==
    /\ node \in {"export", "parse"}
    /\ steps >= RecursionLimit
    /\ node' = "raised"
    /\ UNCHANGED <<state, inner, steps, path, dispatched, seen, fnVars>>

Validate ==
    /\ node = "validate"
    /\ LET s2 == ApplyUpdate(state, check_export_success(state))
       IN  /\ state' = s2
           /\ node' = route_after_validation(s2)
    /\ seen' = state.messages
    /\ path' = Append(path, <<"validate", "validate">>)
    /\ UNCHANGED <<inner, steps, dispatched, fnVars>>

PrepareParse ==
    /\ node = "prepare_parse"
    /\ state' = ApplyUpdate(state, prepare_for_parsing(state))
    /\ node' = "parse"
    /\ inner' = "agent"
    /\ steps' = 0
    /\ path' = Append(path, <<"prepare_parse", "prepare_parse">>)
    /\ UNCHANGED <<dispatched, seen, fnVars>>

Next ==
    \/ ExportDecide
    \/ ExportAct
    \/ Validate
    \/ PrepareParse
    \/ ParseDecide
    \/ ParseAct
    \/ RecursionAbort

Spec == Init /\ [][Next]_vars

(***************************************************************************)
(* _unwrap_graphql_type as a state machine: one call on any descriptor.    *)
(***************************************************************************)
PipelineIdle ==
    /\ state = create_initial_state
    /\ node = "idle"
    /\ inner = "agent"
    /\ steps = 0
    /\ path = <<>>
    /\ dispatched = <<>>
    /\ seen = <<>>

InitUnwrap ==
    /\ PipelineIdle
    /\ parse = ParseIdle
    /\ openapi = OpenapiIdle
    /\ probe = ProbeIdle
    /\ \E type_info \in TypeInfos :
         unwrap = [pc |-> "loop", type_info |-> type_info,
                   st |-> UnwrapEntry(type_info), result |-> NoUnwrapResult]

UnwrapIterate ==
    /\ unwrap.pc = "loop"
    /\ UnwrapLooping(unwrap.st)
    /\ unwrap' = [unwrap EXCEPT !.st = UnwrapStep(unwrap.type_info, unwrap.st)]
    /\ UNCHANGED <<pipelineVars, parse, openapi, probe>>

UnwrapReturn ==
    /\ unwrap.pc = "loop"
    /\ ~UnwrapLooping(unwrap.st)
    /\ unwrap' = [unwrap EXCEPT !.pc = "done", !.result = UnwrapFinish(unwrap.st)]
    /\ UNCHANGED <<pipelineVars, parse, openapi, probe>>

NextUnwrap ==
    \/ UnwrapIterate
    \/ UnwrapReturn

SpecUnwrap == InitUnwrap /\ [][NextUnwrap]_vars

(***************************************************************************)
(* The parse actions as a state machine: one call of either action on any  *)
(* document.                                                               *)
(***************************************************************************)
InitParse ==
    /\ PipelineIdle
    /\ unwrap = UnwrapIdle
    /\ openapi = OpenapiIdle
    /\ probe = ProbeIdle
    /\ \/ \E doc \in GraphqlDocs :
            parse = [ParseIdle EXCEPT !.pc = "call", !.tool = "parse_graphql_schema",
                                      !.graphql = doc]
       \/ \E doc \in OpenapiDocs :
            parse = [ParseIdle EXCEPT !.pc = "call", !.tool = "parse_openapi_spec",
                                      !.openapi = doc]

ParseGraphqlCall ==
    /\ parse.pc = "call"
    /\ parse.tool = "parse_graphql_schema"
    /\ parse' = [parse EXCEPT !.pc = "done",
                              !.result = parse_graphql_schema(parse.graphql, SourceApi)]
    /\ UNCHANGED <<pipelineVars, unwrap, openapi, probe>>

ParseOpenapiCall ==
    /\ parse.pc = "call"
    /\ parse.tool = "parse_openapi_spec"
    /\ parse' = [parse EXCEPT !.pc = "done",
                              !.result = parse_openapi_spec(parse.openapi, SourceApi)]
    /\ UNCHANGED <<pipelineVars, unwrap, openapi, probe>>

NextParse ==
    \/ ParseGraphqlCall
    \/ ParseOpenapiCall

SpecParse == InitParse /\ [][NextParse]_vars

(***************************************************************************)
(* The OpenAPI type resolution and entity builder as a state machine: one  *)
(* call of either function on any definition.                              *)
(***************************************************************************)
InitOpenapi ==
    /\ PipelineIdle
    /\ unwrap = UnwrapIdle
    /\ parse = ParseIdle
    /\ probe = ProbeIdle
    /\ \/ \E prop_def \in PropDefs :
            openapi = [OpenapiIdle EXCEPT !.pc = "call", !.fn = "_parse_openapi_type",
                                          !.prop_def = prop_def]
       \/ \E schema_def \in SchemaDefs :
            openapi = [OpenapiIdle EXCEPT !.pc = "call", !.fn = "_parse_openapi_schema",
                                          !.schema_def = schema_def]

ParseOpenapiTypeCall ==
    /\ openapi.pc = "call"
    /\ openapi.fn = "_parse_openapi_type"
    /\ openapi' = [openapi EXCEPT !.pc = "done",
                                  !.type_name = _parse_openapi_type(openapi.prop_def)]
    /\ UNCHANGED <<pipelineVars, unwrap, parse, probe>>

ParseOpenapiSchemaCall ==
    /\ openapi.pc = "call"
    /\ openapi.fn = "_parse_openapi_schema"
    /\ openapi' = [openapi EXCEPT
                      !.pc = "done",
                      !.entities = <<_parse_openapi_schema(<<"Pet">>, openapi.schema_def,
                                                           SourceApi)>>]
    /\ UNCHANGED <<pipelineVars, unwrap, parse, probe>>

NextOpenapi ==
    \/ ParseOpenapiTypeCall
    \/ ParseOpenapiSchemaCall

SpecOpenapi == InitOpenapi /\ [][NextOpenapi]_vars

(***************************************************************************)
(* The discovery actions as a state machine: one call of                   *)
(* check_graphql_endpoint on any outcome, or one scan of                   *)
(* check_openapi_endpoint, path by path.                                   *)
(***************************************************************************)
InitProbe ==
    /\ PipelineIdle
    /\ unwrap = UnwrapIdle
    /\ parse = ParseIdle
    /\ openapi = OpenapiIdle
    /\ \/ \E outcome \in GraphqlOutcomes :
            probe = [ProbeIdle EXCEPT !.pc = "call", !.tool = "check_graphql_endpoint",
                                      !.outcome = outcome]
       \/ \E responses \in ScanResponses, client_ok \in BOOLEAN :
            probe = [ProbeIdle EXCEPT !.pc = "call", !.tool = "check_openapi_endpoint",
                                      !.client_ok = client_ok, !.responses = responses]

CheckGraphqlCall ==
    /\ probe.pc = "call"
    /\ probe.tool = "check_graphql_endpoint"
    /\ probe' = [probe EXCEPT !.pc = "done",
                              !.result = check_graphql_endpoint(probe.outcome)]
    /\ UNCHANGED <<pipelineVars, unwrap, parse, openapi>>

\* line 206: the client is set up, or the call ends at line 233
ProbeOpen ==
    /\ probe.pc = "call"
    /\ probe.tool = "check_openapi_endpoint"
    /\ probe' = IF probe.client_ok
                THEN [probe EXCEPT !.pc = "scan"]
                ELSE [probe EXCEPT !.pc = "done", !.result = ProbeClientError]
    /\ UNCHANGED <<pipelineVars, unwrap, parse, openapi>>

ProbePath ==
    /\ probe.pc = "scan"
    /\ probe.i <= Len(common_paths)
    /\ probe' = [probe EXCEPT
                    !.found_specs = ProbeStep(@, common_paths[probe.i],
                                              probe.responses[probe.i]),
                    !.i = @ + 1]
    /\ UNCHANGED <<pipelineVars, unwrap, parse, openapi>>

ProbeReturn ==
    /\ probe.pc = "scan"
    /\ probe.i > Len(common_paths)
    /\ probe' = [probe EXCEPT !.pc = "done", !.result = ProbeFinish(probe.found_specs)]
    /\ UNCHANGED <<pipelineVars, unwrap, parse, openapi>>

NextProbe ==
    \/ CheckGraphqlCall
    \/ ProbeOpen
    \/ ProbePath
    \/ ProbeReturn

SpecProbe == InitProbe /\ [][NextProbe]_vars

(***************************************************************************)
(* Helpers of the properties.                                              *)
(***************************************************************************)
Last(s) == s[Len(s)]

IsPrefix(s, t) == Len(s) <= Len(t) /\ SubSeq(t, 1, Len(s)) = s

\* some turn of the transcript has the word ERROR in its text
HasERROR(msgs) ==
    \E i \in 1..Len(msgs) : \E j \in 1..Len(msgs[i].content) :
        msgs[i].content[j] = "ERROR"

\* the graphs whose nodes were executed, in order
Graphs == [k \in 1..Len(path) |-> path[k][1]]

ToolTurns(msgs) == SelectSeq(msgs, LAMBDA m : m.type = "tool")

ErrorTurns(msgs) ==
    {i \in 1..Len(msgs) : msgs[i].type = "tool" /\ Head(msgs[i].content) = "ERROR"}

\* a fetch action of the export phase returned SUCCESS
FetchSucceeded ==
    \E k \in 1..Len(dispatched) :
        /\ dispatched[k].phase = "export"
        /\ dispatched[k].tool \in Range(SCHEMA_TOOLS)
        /\ Head(dispatched[k].result) = "SUCCESS"

(***************************************************************************)
(* C1: when the transcript VALIDATE reads has a turn containing ERROR,     *)
(* status becomes failed, the pipeline is at END, and neither              *)
(* PREPARE_PARSE nor any step of the PARSE loop (decision or action) has   *)
(* been executed.                                                          *)
(***************************************************************************)
C1_ErrorShortCircuits ==
    (seen # <<>> /\ HasERROR(seen)) =>
        /\ state.status = "failed"
        /\ node = "END"
        /\ \A k \in 1..Len(path) : path[k][1] \notin {"prepare_parse", "parse"}
        /\ \A k \in 1..Len(dispatched) : dispatched[k].phase # "parse"

C1_Witness ==
    /\ seen # <<>>
    /\ HasERROR(seen)
    /\ node = "END"
    /\ \E i \in 1..Len(seen) : seen[i].type = "tool" /\ Head(seen[i].content) = "ERROR"

(***************************************************************************)
(* C2: when no turn VALIDATE reads contains ERROR, status becomes success  *)
(* and the run executes PREPARE_PARSE, then the PARSE loop, then END, in   *)
(* that order, with or without a raw schema; no step of the PARSE loop     *)
(* precedes the end of EXPORT and VALIDATE setting status to success.      *)
(***************************************************************************)
C2_SuccessRunsParse ==
    /\ (seen # <<>> /\ ~HasERROR(seen)) =>
         /\ state.status = "success"
         /\ node \in {"prepare_parse", "parse", "END", "raised"}
         /\ node \in {"parse", "END", "raised"} => "prepare_parse" \in Range(Graphs)
         /\ node = "END" => Last(Graphs) = "parse"
    /\ \A k \in 1..Len(path) :
         /\ Graphs[k] = "prepare_parse" =>
              k > 1 /\ Graphs[k - 1] = "validate"
         /\ Graphs[k] = "parse" =>
              /\ k > 2
              /\ Graphs[k - 1] \in {"prepare_parse", "parse"}
              /\ state.status = "success"
              /\ \E v \in 1..(k - 2) :
                   /\ Graphs[v] = "validate"
                   /\ \A j \in 1..Len(path) :
                        (Graphs[j] = "export") <=> (j < v)

C2_Witness ==
    /\ node = "END"
    /\ state.status = "success"
    /\ state.raw_schema = "None"
    /\ \E k \in 1..Len(dispatched) : dispatched[k].phase = "parse"

C4_CapAbortsAsFailed ==
    node = "raised" => state.status = "failed" /\ Len(state.errors) >= 1

(***************************************************************************)
(* C5: a DECIDE step whose response requests no action leaves the loop     *)
(* without executing an action; one that requests an action is followed by *)
(* ACT, which appends exactly one tool-result turn holding that action's   *)
(* result and hands control back to DECIDE.                                *)
(***************************************************************************)
C5_DecideActRouting ==
    [][/\ (node \in {"export", "parse"} /\ inner = "agent" /\ path' # path) =>
            /\ Len(state'.messages) = Len(state.messages) + 1
            /\ Last(state'.messages).type = "ai"
            /\ dispatched' = dispatched
            /\ IF Last(state'.messages).tool_calls = <<>>
               THEN node' = (IF node = "export" THEN "validate" ELSE "END")
               ELSE node' = node /\ inner' = "tools"
       /\ (node \in {"export", "parse"} /\ inner = "tools" /\ path' # path) =>
            /\ Len(state'.messages) = Len(state.messages) + 1
            /\ SubSeq(state'.messages, 1, Len(state.messages)) = state.messages
            /\ Last(state'.messages).type = "tool"
            /\ Last(state'.messages).name = Last(state.messages).tool_calls[1]
            /\ Last(state'.messages).content = Last(dispatched').result
            /\ Len(dispatched') = Len(dispatched) + 1
            /\ Last(dispatched').tool = Last(state.messages).tool_calls[1]
            /\ node' = node
            /\ inner' = "agent"]_vars

C5_Witness ==
    /\ node = "parse"
    /\ inner = "agent"
    /\ Last(state.messages).type = "tool"
    /\ Last(state.messages).name = "parse_openapi_spec"

(***************************************************************************)
(* C6: every action that returned an ERROR-prefixed result has one entry   *)
(* in the errors list.                                                     *)
(***************************************************************************)
C6_FailuresRecorded ==
    Len(state.errors) = Cardinality(ErrorTurns(state.messages))

(***************************************************************************)
(* C7: after an export phase in which a fetch action returned SUCCESS,     *)
(* raw_schema holds a payload and PREPARE_PARSE appends exactly one turn   *)
(* instructing the parse phase to parse it.                                *)
(***************************************************************************)
C7_RawSchemaCaptured ==
    (FetchSucceeded /\ "prepare_parse" \in Range(Graphs)) =>
        /\ state.raw_schema # "None"
        /\ Len(state.messages) > Len(seen)
        /\ state.messages[Len(seen) + 1].type = "human"
        /\ Contains(state.messages[Len(seen) + 1].content, state.raw_schema)

(***************************************************************************)
(* C8: at the end of a run the entities list holds, in order, the entities *)
(* every successful parse action produced.                                 *)
(***************************************************************************)
\* the JSON text that follows the sentinel line of a result
AfterSentinel(text) ==
    LET at == CHOOSE i \in 1..Len(text) :
                  text[i] = Sentinel /\ \A j \in 1..(i - 1) : text[j] # Sentinel
    IN  SubSeq(text, at + 2, Len(text))

RECURSIVE Produced(_)
Produced(msgs) ==
    IF msgs = <<>> THEN <<>>
    ELSE (IF /\ Head(msgs).type = "tool"
             /\ Head(msgs).name \in Range(PARSER_TOOLS)
             /\ Head(Head(msgs).content) = "SUCCESS"
          THEN json_loads(AfterSentinel(Head(msgs).content))
          ELSE <<>>)
             \o Produced(Tail(msgs))

C8_EntitiesSurfaced ==
    node = "END" => state.entities = Produced(state.messages)

(***************************************************************************)
(* C9: on a well-formed document with at least one type or schema          *)
(* definition either parse action returns a SUCCESS result holding the     *)
(* sentinel line followed by a JSON array that loads back to the entities  *)
(* the entity builder produced, in order.                                  *)
(***************************************************************************)
WellFormedCall ==
    IF parse.tool = "parse_graphql_schema"
    THEN parse.graphql.valid /\ GraphqlTypes(parse.graphql) # <<>>
    ELSE parse.openapi.valid /\ OpenapiSchemas(parse.openapi) # <<>>

BuiltEntities ==
    IF parse.tool = "parse_graphql_schema"
    THEN GraphqlEntities(GraphqlTypes(parse.graphql), SourceApi)
    ELSE OpenapiEntities(OpenapiSchemas(parse.openapi), SourceApi)

RoundTrips ==
    /\ Head(parse.result) = "SUCCESS"
    /\ \E i \in 2..Len(parse.result) :
         parse.result[i] = Sentinel /\ parse.result[i - 1] = "\n"
    /\ json_loads(AfterSentinel(parse.result)) = BuiltEntities

C9_ParseRoundTrip ==
    (parse.pc = "done" /\ WellFormedCall) => RoundTrips

\* the same for parse_openapi_spec alone
OpenapiRoundTrip ==
    (parse.pc = "done" /\ parse.tool = "parse_openapi_spec" /\ WellFormedCall)
        => RoundTrips

(***************************************************************************)
(* C10: for a chain of NON_NULL and LIST wrappers ending in a descriptor   *)
(* with a name N, unwrap returns one "[" per LIST wrapper, then N, then    *)
(* one "]" per LIST wrapper, and is_required is true iff some wrapper of   *)
(* the chain is NON_NULL; NON_NULL(String) gives (String, true),           *)
(* LIST(NON_NULL(String)) and NON_NULL(LIST(String)) give ([String], true).*)
(***************************************************************************)
Wrappers == {"NON_NULL", "LIST"}

\* levels 1..k-1 are wrappers and level k is a named, non-wrapper descriptor
NamedChain(levels, k) ==
    /\ k \in 1..Len(levels)
    /\ \A j \in 1..(k - 1) : levels[j].kind \in Wrappers
    /\ levels[k].kind \notin Wrappers
    /\ levels[k].name # <<>>

Canonical(levels, k) ==
    LET lists == Cardinality({j \in 1..(k - 1) : levels[j].kind = "LIST"})
    IN  [type_name   |-> [i \in 1..lists |-> "["] \o levels[k].name
                            \o [i \in 1..lists |-> "]"],
         is_required |-> \E j \in 1..(k - 1) : levels[j].kind = "NON_NULL"]

Wrap(kind) == [kind |-> kind, name |-> <<>>]

StringType == [kind |-> "SCALAR", name |-> <<"String">>]

C10_UnwrapCanonical ==
    unwrap.pc = "done" =>
        LET levels == unwrap.type_info.levels
        IN  /\ \A k \in 1..Len(levels) :
                 NamedChain(levels, k) => unwrap.result = Canonical(levels, k)
            /\ levels = <<Wrap("NON_NULL"), StringType>> =>
                 unwrap.result = [type_name |-> <<"String">>, is_required |-> TRUE]
            /\ levels = <<Wrap("LIST"), Wrap("NON_NULL"), StringType>> =>
                 unwrap.result = [type_name |-> <<"[", "String", "]">>,
                                  is_required |-> TRUE]
            /\ levels = <<Wrap("NON_NULL"), Wrap("LIST"), StringType>> =>
                 unwrap.result = [type_name |-> <<"[", "String", "]">>,
                                  is_required |-> TRUE]

C10_Witness ==
    /\ unwrap.pc = "done"
    /\ unwrap.type_info.levels = <<Wrap("LIST"), Wrap("NON_NULL"), StringType>>
    /\ unwrap.result.type_name = <<"[", "String", "]">>
    /\ unwrap.result.is_required

(***************************************************************************)
(* C11: OpenAPI type resolution: a property with $ref gives the last path  *)
(* segment of the reference; otherwise type array gives "[" T "]" with T   *)
(* the last segment of the items' $ref or the items' primitive mapped      *)
(* (string to String, integer to Int, number to Float, boolean to Boolean, *)
(* object to Object); otherwise a known primitive is mapped and an unknown *)
(* one passes through.                                                     *)
(***************************************************************************)
LastSegment(ref) == <<ref[Len(ref)]>>

MappedPrimitive(name) ==
    CASE name = "string"  -> <<"String">>
      [] name = "integer" -> <<"Int">>
      [] name = "number"  -> <<"Float">>
      [] name = "boolean" -> <<"Boolean">>
      [] name = "object"  -> <<"Object">>
      [] OTHER            -> <<name>>

\* the definitions the statement speaks of: a $ref, or a type that is a
\* primitive or an array whose items have a $ref or a primitive type
Resolvable(prop_def) ==
    \/ "$ref" \in prop_def.keys
    \/ /\ "type" \in prop_def.keys
       /\ prop_def.type = "array" =>
             /\ "items" \in prop_def.keys
             /\ \/ "$ref" \in prop_def.items.keys
                \/ "type" \in prop_def.items.keys /\ prop_def.items.type # "array"

ResolvedType(prop_def) ==
    IF "$ref" \in prop_def.keys THEN LastSegment(prop_def.ref)
    ELSE IF prop_def.type = "array"
    THEN <<"[">> \o (IF "$ref" \in prop_def.items.keys
                     THEN LastSegment(prop_def.items.ref)
                     ELSE MappedPrimitive(prop_def.items.type)) \o <<"]">>
    ELSE MappedPrimitive(prop_def.type)

C11_TypeResolution ==
    (/\ openapi.pc = "done"
     /\ openapi.fn = "_parse_openapi_type"
     /\ Resolvable(openapi.prop_def)) =>
        openapi.type_name = ResolvedType(openapi.prop_def)

\* the same but for arrays of primitives
C11_ButPrimitiveItems ==
    (/\ openapi.pc = "done"
     /\ openapi.fn = "_parse_openapi_type"
     /\ Resolvable(openapi.prop_def)
     /\ ~(/\ "$ref" \notin openapi.prop_def.keys
          /\ openapi.prop_def.type = "array"
          /\ "$ref" \notin openapi.prop_def.items.keys)) =>
        openapi.type_name = ResolvedType(openapi.prop_def)

(***************************************************************************)
(* C12: every OpenAPI schema definition yields exactly one entity, whose   *)
(* kind is ENUM with enum; else OBJECT with type object or properties;     *)
(* else COMPOSITE with allOf (so for allOf with no enum, properties or     *)
(* type); else OBJECT.                                                     *)
(***************************************************************************)
ClassifiedKind(schema_def) ==
    IF "enum" \in schema_def.keys THEN "ENUM"
    ELSE IF \/ "type" \in schema_def.keys /\ schema_def.type = "object"
            \/ "properties" \in schema_def.keys
    THEN "OBJECT"
    ELSE IF "allOf" \in schema_def.keys THEN "COMPOSITE"
    ELSE "OBJECT"

C12_KindClassification ==
    (openapi.pc = "done" /\ openapi.fn = "_parse_openapi_schema") =>
        /\ Len(openapi.entities) = 1
        /\ openapi.entities[1].kind = <<ClassifiedKind(openapi.schema_def)>>

\* the same but for a schema with allOf and no type key
C12_ButUntypedAllOf ==
    (/\ openapi.pc = "done"
     /\ openapi.fn = "_parse_openapi_schema"
     /\ ~("allOf" \in openapi.schema_def.keys /\ "type" \notin openapi.schema_def.keys)) =>
        /\ Len(openapi.entities) = 1
        /\ openapi.entities[1].kind = <<ClassifiedKind(openapi.schema_def)>>

(***************************************************************************)
(* C13: check_graphql_endpoint answers YES with the number of types for a  *)
(* 200 response with a data.__schema payload, MAYBE with the first error   *)
(* message for a 200 response with an errors envelope, NO for any other    *)
(* status, and an ERROR-prefixed result, never NO, for a timeout or a      *)
(* transport failure.                                                      *)
(***************************************************************************)
\* a 200 response whose JSON body carries errors and no schema
ErrorsEnvelope(outcome) ==
    /\ outcome.net = "ok" /\ outcome.status = 200 /\ outcome.json = "object"
    /\ outcome.data \in {"absent", "null", "no_schema"}
    /\ outcome.errors \in {"message", "no_message"}

SchemaPayload(outcome) ==
    /\ outcome.net = "ok" /\ outcome.status = 200 /\ outcome.json = "object"
    /\ outcome.data = "schema"

Classified(outcome, result) ==
    /\ SchemaPayload(outcome) =>
          result = <<"YES", "-", "Found", ToString(outcome.type_count), "types">>
    /\ ErrorsEnvelope(outcome) =>
          /\ Head(result) = "MAYBE"
          /\ outcome.errors = "message" =>
                SubSeq(result, Len(result) - 1, Len(result)) = <<"Introspection", "disabled">>
    /\ (outcome.net = "ok" /\ outcome.status # 200) => Head(result) = "NO"
    /\ outcome.net # "ok" => Head(result) = "ERROR"

C13_ProbeClassification ==
    (probe.pc = "done" /\ probe.tool = "check_graphql_endpoint") =>
        Classified(probe.outcome, probe.result)

\* the same but for a body whose data is null
C13_ButNullData ==
    (/\ probe.pc = "done"
     /\ probe.tool = "check_graphql_endpoint"
     /\ probe.outcome.data # "null") =>
        Classified(probe.outcome, probe.result)

(***************************************************************************)
(* C14: check_openapi_endpoint reports a conventional path as a hit if and *)
(* only if its response is HTTP 200 and either the body is JSON with a     *)
(* top-level openapi, swagger or paths key, or the path is YAML-suffixed,  *)
(* whatever the body; the hits come in the order of the paths.             *)
(***************************************************************************)
HasMarker(response) ==
    response.json = "object" /\ response.keys \cap {"openapi", "swagger", "paths"} # {}

Answered200(response) == response.net = "ok" /\ response.status = 200

\* the paths at the indices of `hits`, in path order
RECURSIVE PathsAt(_, _)
PathsAt(hits, i) ==
    IF i > Len(common_paths) THEN <<>>
    ELSE (IF i \in hits THEN <<common_paths[i]>> ELSE <<>>) \o PathsAt(hits, i + 1)

FoundUrls == [k \in 1..Len(probe.found_specs) |-> probe.found_specs[k].url]

ScanDone ==
    probe.pc = "done" /\ probe.tool = "check_openapi_endpoint" /\ probe.client_ok

C14_HitsAnyYaml ==
    ScanDone =>
        FoundUrls = PathsAt({i \in 1..Len(common_paths) :
                               /\ Answered200(probe.responses[i])
                               /\ \/ HasMarker(probe.responses[i])
                                  \/ EndsWithYaml(common_paths[i])}, 1)

\* C14 as amended: for responses whose body is a JSON object or is not JSON
\* at all, a path is a hit if and only if its response is HTTP 200 and
\* either the body is a JSON object with a top-level openapi, swagger or
\* paths key, or the path is YAML-suffixed and the body is not JSON; the
\* hits come in the order of the paths.
C14_HitsUnparsedYaml ==
    ScanDone =>
        FoundUrls = PathsAt({i \in 1..Len(common_paths) :
                               /\ Answered200(probe.responses[i])
                               /\ \/ HasMarker(probe.responses[i])
                                  \/ /\ EndsWithYaml(common_paths[i])
                                     /\ probe.responses[i].json = "invalid"}, 1)

\* a scan whose only spec is at /v3/api-docs while /openapi.yaml answers 200
\* with a JSON object that is no spec: one hit, at /v3/api-docs
C14_Witness ==
    /\ ScanDone
    /\ Answered200(probe.responses[2])
    /\ probe.responses[2].json = "object"
    /\ ~HasMarker(probe.responses[2])
    /\ HasMarker(probe.responses[6])
    /\ FoundUrls = << <<"/v3/api-docs">> >>
    /\ Head(probe.result) = "YES"

(***************************************************************************)
(* C15: a descriptor with no name anywhere in its chain (the empty         *)
(* descriptor, a wrapper whose ofType is missing or null) unwraps to a     *)
(* type name whose terminal name is Unknown; {} gives (Unknown, false).    *)
(***************************************************************************)
Nameless(type_info) ==
    \A i \in 1..Len(type_info.levels) : type_info.levels[i].name = <<>>

C15_UnknownFallback ==
    (unwrap.pc = "done" /\ Nameless(unwrap.type_info)) =>
        /\ Count(unwrap.result.type_name, "Unknown") = 1
        /\ unwrap.type_info.levels = <<>> =>
              unwrap.result = [type_name |-> <<"Unknown">>, is_required |-> FALSE]

(***************************************************************************)
(* C16: the export loop dispatches only discovery and fetch actions, the   *)
(* parse loop only parse actions, so no parse action runs before VALIDATE. *)
(***************************************************************************)
C16_PhaseTools ==
    \A k \in 1..Len(dispatched) :
        /\ dispatched[k].phase = "export" => dispatched[k].tool \in Range(API_TOOLS)
        /\ dispatched[k].phase = "parse" => dispatched[k].tool \in Range(PARSER_TOOLS)

(***************************************************************************)
(* C17: the run state starts with status initialized, and once status is   *)
(* success or failed no later step changes any part of the run state.      *)
(***************************************************************************)
TerminalStatus == {"success", "failed"}

C18_FailedScanIsError ==
    (/\ probe.pc = "done"
     /\ probe.tool = "check_openapi_endpoint"
     /\ \A i \in 1..Len(common_paths) : probe.responses[i].net = "failed") =>
        Head(probe.result) = "ERROR"

====
